---- MODULE Spec2Model ----
(***************************************************************************)
(* A model of the dataclass attribute macro (src/lib.rs): option parsing,  *)
(* marker inspection, field extraction, code synthesis and emission, and   *)
(* the behaviour of the code it generates.                                 *)
(***************************************************************************)
EXTENDS Integers, Sequences, FiniteSets, TLC

VARIABLES args, input, options, expanded, inst, last, pc

vars == <<args, input, options, expanded, inst, last, pc>>

(***************************************************************************)
(* Bounds of the model.                                                    *)
(***************************************************************************)
\* longest option list given to the macro
MaxArgs == 2
\* longest annotation list on the input type
MaxAttrs == 2
\* field values of generated instances are 0..MaxVal
MaxVal == 1

SeqsUpTo(S, n) == UNION {[1..k -> S] : k \in 0..n}

(***************************************************************************)
(* DataclassOptions and its parser.                                        *)
(***************************************************************************)
OptionNames == {"init", "repr", "eq", "order", "unsafe_hash", "frozen",
                "match_args", "kw_only", "slots", "weakref_slot"}

\* the struct: one boolean per flag
DataclassOptions == [OptionNames -> BOOLEAN]

\* the literal that from_meta_list starts from
default_options ==
    [n \in OptionNames |-> n \in {"init", "repr", "eq", "match_args"}]

\* syn::Expr values an entry can carry: a boolean literal, another literal,
\* or an expression that is no literal
LitBool(b) == [expr |-> "Lit", lit |-> "Bool", b |-> b]
LitStr == [expr |-> "Lit", lit |-> "Str", b |-> FALSE]
NonLit == [expr |-> "Path", lit |-> "None", b |-> FALSE]
Exprs == {LitBool(TRUE), LitBool(FALSE), LitStr, NonLit}

\* syn::Meta: `path = value`, a bare `path`, or `path(...)`
NameValue(p, v) == [kind |-> "NameValue", path |-> p, value |-> v]
MetaPath(p) == [kind |-> "Path", path |-> p, value |-> NonLit]
MetaList(p) == [kind |-> "List", path |-> p, value |-> NonLit]

\* Path::get_ident: Some(ident) exactly for a path of one segment
get_ident(path) ==
    IF Len(path) = 1 THEN [some |-> TRUE, ident |-> path[1]]
    ELSE [some |-> FALSE, ident |-> ""]

\* the outcome of from_meta_list: the options, or the panic that ended it
ParseOk(o) == [panicked |-> FALSE, msg |-> "", ident |-> "", flags |-> o]
ParsePanic(m, id) ==
    [panicked |-> TRUE, msg |-> m, ident |-> id, flags |-> default_options]

\* the inner match on nv.value
bool_value(ident, value) ==
    IF value.expr = "Lit"
    THEN IF value.lit = "Bool"
         THEN [ok |-> TRUE, b |-> value.b, msg |-> ""]
         ELSE [ok |-> FALSE, b |-> FALSE,
               msg |-> "Expected boolean value for option"]
    ELSE [ok |-> FALSE, b |-> FALSE,
          msg |-> "Expected literal value for option"]

set_option_swapped(o, ident, value) ==
    IF ident \in OptionNames
    THEN ParseOk([o EXCEPT ![IF ident = "kw_only" THEN "slots"
                             ELSE IF ident = "slots" THEN "kw_only"
                             ELSE ident] = value])
    ELSE ParsePanic("Unknown option", ident)

\* the match on ident.to_string().as_str()
set_option(o, ident, value) ==
    IF ident \in OptionNames
    THEN ParseOk([o EXCEPT ![ident] = value])
    ELSE ParsePanic("Unknown option", ident)

\* the body of the for loop, for one entry
apply_meta(o, meta) ==
    IF meta.kind = "NameValue"
    THEN LET id == get_ident(meta.path) IN
         IF id.some
         THEN LET v == bool_value(id.ident, meta.value) IN
              IF v.ok THEN set_option(o, id.ident, v.b)
              ELSE ParsePanic(v.msg, id.ident)
         ELSE ParseOk(o)
    ELSE ParsePanic("Expected name = value pair", "")

RECURSIVE meta_loop(_, _, _)
meta_loop(meta_list, i, o) ==
    IF i > Len(meta_list) THEN ParseOk(o)
    ELSE LET r == apply_meta(o, meta_list[i]) IN
         IF r.panicked THEN r ELSE meta_loop(meta_list, i + 1, r.flags)

from_meta_list(meta_list) == meta_loop(meta_list, 1, default_options)

(***************************************************************************)
(* The input type (syn::DeriveInput) and its annotations.                  *)
(***************************************************************************)
\* An attribute #[path], #[path = ..] or #[path(tokens)]: `list` says that it
\* has a delimited argument list, `tokens` are the comma-separated items in it
Attr(p, l, t) == [path |-> p, list |-> l, tokens |-> t]

\* #[doc = "..."]
doc_attr == Attr("doc", FALSE, <<>>)
\* #[derive(Debug)]
derive_debug_attr == Attr("derive", TRUE, <<MetaPath(<<"Debug">>)>>)
\* #[derive(Serialize, Deserialize)]
derive_serialize_attr ==
    Attr("derive", TRUE, <<MetaPath(<<"Serialize">>), MetaPath(<<"Deserialize">>)>>)
\* #[serde(rename_all = "camelCase")]
serde_attr == Attr("serde", TRUE, <<NameValue(<<"rename_all">>, LitStr)>>)
\* #[cfg(serde)]: an attribute whose only argument is the word serde
serde_arg_attr == Attr("cfg", TRUE, <<MetaPath(<<"serde">>)>>)
\* #[derive(Clone)], which emission puts first
derive_clone_attr == Attr("derive", TRUE, <<MetaPath(<<"Clone">>)>>)
\* #[cfg_attr(feature = "serde", derive(::serde::Serialize, ::serde::Deserialize))]
serde_derive_attr ==
    Attr("cfg_attr", TRUE,
         <<NameValue(<<"feature">>, LitStr), MetaList(<<"derive">>)>>)

Attrs == {doc_attr, derive_debug_attr, derive_serialize_attr, serde_attr,
          serde_arg_attr, serde_derive_attr}

\* Attribute::parse_args::<Meta>: the argument list parsed as ONE Meta; an
\* attribute without an argument list, or with other than one item, is an Err
parse_args(attr) ==
    IF attr.list /\ Len(attr.tokens) = 1
    THEN [ok |-> TRUE, meta |-> attr.tokens[1]]
    ELSE [ok |-> FALSE, meta |-> MetaPath(<<>>)]

\* Path::is_ident
is_ident(path, name) == Len(path) = 1 /\ path[1] = name

has_serde_attribute(attrs) ==
    \E k \in 1..Len(attrs) :
        LET r == parse_args(attrs[k]) IN
        r.ok /\ r.meta.kind = "Path" /\ is_ident(r.meta.path, "serde")

Field(n, t) == [ident |-> n, ty |-> t]

\* the field lists of the types the model expands
FieldLists == {<<>>,
               <<Field("x", "i32")>>,
               <<Field("x", "i32"), Field("y", "i32")>>}

Kinds == {"struct_named", "struct_tuple", "struct_unit", "enum", "union"}

DeriveInput(id, k, fs, as) ==
    [ident |-> id, kind |-> k, fields |-> fs, attrs |-> as]

(***************************************************************************)
(* implement_dataclass: field extraction, synthesis, emission.             *)
(***************************************************************************)
\* a generated impl block: its trait ("new" for the inherent impl), the
\* parameters of `new`, and the field names its body repeats over
Fragment(t, ps, ns) == [trait |-> t, params |-> ps, names |-> ns]

\* what the macro hands back: the replacement definition, or a panic (its
\* message and the option name it cites) and no tokens at all
Expansion(as, id, sf, impls) ==
    [panicked |-> FALSE, msg |-> "", cited |-> "", ident |-> id, attrs |-> as,
     struct_fields |-> sf, implementations |-> impls]
Panic(m, c) ==
    [panicked |-> TRUE, msg |-> m, cited |-> c, ident |-> "", attrs |-> <<>>,
     struct_fields |-> <<>>, implementations |-> <<>>]
NotExpanded == Panic("", "")

extract_fields_any_struct(data) ==
    IF data.kind \in {"struct_named", "struct_tuple", "struct_unit"}
    THEN [ok |-> TRUE, msg |-> "", fields |-> data.fields]
    ELSE [ok |-> FALSE, msg |-> "Dataclass only works with structs",
          fields |-> <<>>]

\* the match on input.data
extract_fields(data) ==
    IF data.kind \in {"struct_named", "struct_tuple", "struct_unit"}
    THEN IF data.kind = "struct_named"
         THEN [ok |-> TRUE, msg |-> "", fields |-> data.fields]
         ELSE [ok |-> FALSE, msg |-> "Dataclass only works with named fields",
               fields |-> <<>>]
    ELSE [ok |-> FALSE, msg |-> "Dataclass only works with structs",
          fields |-> <<>>]

Rev(s) == [k \in 1..Len(s) |-> s[Len(s) + 1 - k]]

constructor_kw_only_differs(o, fields, field_names) ==
    IF o["kw_only"]
    THEN Fragment("new", Rev(fields), field_names)
    ELSE Fragment("new", fields, field_names)

\* the init fragment: both branches on kw_only quote the same tokens
constructor(o, fields, field_names) ==
    IF o["kw_only"]
    THEN Fragment("new", fields, field_names)
    ELSE Fragment("new", fields, field_names)

\* the frozen option
struct_fields_always_pub(o, fields) ==
    [k \in 1..Len(fields) |->
        [vis |-> "pub", ident |-> fields[k].ident, ty |-> fields[k].ty]]

struct_fields(o, fields) ==
    IF o["frozen"]
    THEN [k \in 1..Len(fields) |->
            [vis |-> "pub(crate)", ident |-> fields[k].ident, ty |-> fields[k].ty]]
    ELSE [k \in 1..Len(fields) |->
            [vis |-> "pub", ident |-> fields[k].ident, ty |-> fields[k].ty]]

\* implementations, extended fragment by fragment
implementations(o, fields) ==
    LET field_names == [k \in 1..Len(fields) |-> fields[k].ident] IN
    (IF o["init"] THEN <<constructor(o, fields, field_names)>> ELSE <<>>)
    \o (IF o["repr"] THEN <<Fragment("Debug", <<>>, field_names)>> ELSE <<>>)
    \o (IF o["eq"]
        THEN <<Fragment("PartialEq", <<>>, field_names), Fragment("Eq", <<>>, <<>>)>>
        ELSE <<>>)
    \o (IF o["order"]
        THEN <<Fragment("PartialOrd", <<>>, <<>>), Fragment("Ord", <<>>, field_names)>>
        ELSE <<>>)
    \o (IF o["unsafe_hash"] THEN <<Fragment("Hash", <<>>, field_names)>> ELSE <<>>)

implement_dataclass(in, o) ==
    LET ex == extract_fields(in) IN
    IF ~ex.ok THEN Panic(ex.msg, "")
    ELSE Expansion(<<derive_clone_attr>> \o in.attrs, in.ident,
                   struct_fields(o, ex.fields), implementations(o, ex.fields))

\* the attribute macro itself
dataclass(as, in) ==
    LET parsed == from_meta_list(as) IN
    IF parsed.panicked THEN Panic(parsed.msg, parsed.ident)
    ELSE LET attrs == IF ~has_serde_attribute(in.attrs)
                      THEN Append(in.attrs, serde_derive_attr)
                      ELSE in.attrs
         IN implement_dataclass([in EXCEPT !.attrs = attrs], parsed.flags)

(***************************************************************************)
(* The generated code, by what its tokens do when compiled and called.     *)
(***************************************************************************)
Values == 0..MaxVal

has_impl(def, t) ==
    \E k \in 1..Len(def.implementations) : def.implementations[k].trait = t
impl_of(def, t) ==
    def.implementations[CHOOSE k \in 1..Len(def.implementations) :
                            def.implementations[k].trait = t]

\* position of the field or parameter called n
index_of(decls, n) == CHOOSE k \in 1..Len(decls) : decls[k].ident = n

\* self.n on an instance, whose values lie in the order of the struct's fields
field_value(def, a, n) == a[index_of(def.struct_fields, n)]

\* The expansion type-checks: `eq` must end in a bool expression, and the
\* repetition `#(..)&&*` over no fields leaves its body empty; Ord needs Eq
\* and PartialOrd, PartialOrd and Eq need PartialEq
compiles(def) ==
    /\ ~def.panicked
    /\ has_impl(def, "PartialEq") => Len(impl_of(def, "PartialEq").names) > 0
    /\ has_impl(def, "Ord") => has_impl(def, "Eq") /\ has_impl(def, "PartialOrd")
    /\ has_impl(def, "PartialOrd") => has_impl(def, "PartialEq")

new_args_reversed(def, argvals) ==
    [k \in 1..Len(def.struct_fields) |-> argvals[Len(argvals) + 1 - k]]

\* pub fn new(#(#field_names: #field_types),*) -> Self { Self { #(#field_names,)* } }
\* each field of the literal takes the parameter of its own name
new(def, argvals) ==
    LET ctor == impl_of(def, "new") IN
    [k \in 1..Len(def.struct_fields) |->
        argvals[index_of(ctor.params, def.struct_fields[k].ident)]]

eq_first_field_only(def, a, b) ==
    LET names == impl_of(def, "PartialEq").names IN
    [ok |-> Len(names) > 0,
     b |-> Len(names) > 0 =>
             field_value(def, a, names[1]) = field_value(def, b, names[1])]

\* fn eq: #(self.#field_names == other.#field_names)&&*
\* with no fields the body is empty and is no bool
eq(def, a, b) ==
    LET names == impl_of(def, "PartialEq").names IN
    [ok |-> Len(names) > 0,
     b |-> \A k \in 1..Len(names) :
             field_value(def, a, names[k]) = field_value(def, b, names[k])]

\* i32::cmp
i32_cmp(v, w) == IF v < w THEN "Less" ELSE IF v > w THEN "Greater" ELSE "Equal"

RECURSIVE cmp_last_field_first(_, _, _, _, _)
cmp_last_field_first(def, names, k, a, b) ==
    IF k < 1 THEN "Equal"
    ELSE LET c == i32_cmp(field_value(def, a, names[k]),
                          field_value(def, b, names[k])) IN
         IF c = "Equal" THEN cmp_last_field_first(def, names, k - 1, a, b) ELSE c

cmp_reversed(def, a, b) ==
    LET names == impl_of(def, "Ord").names IN
    cmp_last_field_first(def, names, Len(names), a, b)

\* fn cmp: #( if let Equal = self.f.cmp(&other.f) {} else { return .. } )* Equal
RECURSIVE cmp_from(_, _, _, _, _)
cmp_from(def, names, k, a, b) ==
    IF k > Len(names) THEN "Equal"
    ELSE LET c == i32_cmp(field_value(def, a, names[k]),
                          field_value(def, b, names[k])) IN
         IF c = "Equal" THEN cmp_from(def, names, k + 1, a, b) ELSE c

cmp(def, a, b) == cmp_from(def, impl_of(def, "Ord").names, 1, a, b)

\* fn hash: #(self.#field_names.hash(state);)*  The hasher's state is the
\* sequence of what was written to it; an i32 writes itself
hash(def, a) ==
    LET names == impl_of(def, "Hash").names IN
    [k \in 1..Len(names) |-> field_value(def, a, names[k])]

\* HashSet::contains on the set holding m alone: the bucket of x's hash, then ==
set_contains(def, m, x) == hash(def, x) = hash(def, m) /\ eq(def, x, m).b

\* a field with visibility vis, used from site
visible(vis, site) == vis = "pub" \/ site = "same_crate"

(***************************************************************************)
(* State: one macro invocation (args, input, the parsed options, what was  *)
(* expanded), then the instances a program builds from the generated code  *)
(* and the last call it made on them.                                      *)
(***************************************************************************)
Slots == 1..3
Sites == {"same_crate", "other_crate"}

\* an instance: its field values in the order of the struct's fields, the
\* arguments it was built from and where, and whether a field was assigned since
NoInstance == [set |-> FALSE, val |-> <<>>, supplied |-> <<>>, site |-> "",
               written |-> FALSE]
NoCall == [op |-> "none", i |-> 0, j |-> 0, site |-> "", ok |-> FALSE,
           b |-> FALSE, ord |-> "", h |-> <<>>, f |-> 0, v |-> 0,
           args |-> <<>>, err |-> ""]

\* every entry an option list can hold
IdentPaths == {<<n>> : n \in OptionNames \cup {"foo"}}
MetaEntries ==
    {NameValue(p, v) : p \in IdentPaths \cup {<<"dc", "init">>}, v \in Exprs}
    \cup {MetaPath(<<"init">>), MetaList(<<"init">>)}

Opt(n, b) == NameValue(<<n>>, LitBool(b))

\* option lists of the programs whose generated code is run
RunArgs == {<<>>,
            <<Opt("order", TRUE), Opt("unsafe_hash", TRUE)>>,
            <<Opt("eq", FALSE)>>,
            <<Opt("eq", FALSE), Opt("unsafe_hash", TRUE)>>,
            <<Opt("eq", FALSE), Opt("order", TRUE)>>,
            <<Opt("init", FALSE)>>}
VisArgs == {<<>>,
            <<Opt("frozen", TRUE)>>,
            <<Opt("frozen", TRUE), Opt("eq", FALSE)>>,
            <<Opt("frozen", TRUE), Opt("init", FALSE)>>,
            <<Opt("frozen", FALSE), Opt("init", FALSE)>>}
\* option lists of the expansions whose shape and annotations vary
MacroArgs == {<<>>,
              <<Opt("frozen", TRUE)>>,
              <<NameValue(<<"foo">>, LitBool(TRUE))>>,
              <<NameValue(<<"init">>, LitStr)>>,
              <<MetaPath(<<"init">>)>>}

NamedInputs == {DeriveInput("Point", "struct_named", fs, <<>>) : fs \in FieldLists}
ShapedInputs ==
    {DeriveInput("Point", "struct_named", fs, as) :
        fs \in FieldLists, as \in SeqsUpTo(Attrs, MaxAttrs)}
    \cup {DeriveInput("Point", k, <<>>, as) :
        k \in Kinds \ {"struct_named"}, as \in SeqsUpTo(Attrs, MaxAttrs)}

InitWith(as, in, o) ==
    /\ args = as
    /\ input = in
    /\ options = ParseOk(o)
    /\ expanded = NotExpanded
    /\ inst = [k \in Slots |-> NoInstance]
    /\ last = NoCall
    /\ pc = "start"

(***************************************************************************)
(* The macro's operations.                                                 *)
(***************************************************************************)
\* DataclassOptions::from_meta_list(args)
ParseOptions ==
    /\ pc = "start"
    /\ options' = from_meta_list(args)
    /\ pc' = IF options'.panicked THEN "failed" ELSE "parsed"
    /\ UNCHANGED <<args, input, expanded, inst, last>>

\* implement_dataclass(input, options)
Synthesize ==
    /\ pc = "start"
    /\ expanded' = implement_dataclass(input, options.flags)
    /\ pc' = IF expanded'.panicked THEN "failed" ELSE "expanded"
    /\ UNCHANGED <<args, input, options, inst, last>>

\* #[dataclass(args)] on input
Expand ==
    /\ pc = "start"
    /\ options' = from_meta_list(args)
    /\ expanded' = dataclass(args, input)
    /\ pc' = IF expanded'.panicked THEN "failed" ELSE "expanded"
    /\ UNCHANGED <<args, input, inst, last>>

(***************************************************************************)
(* Calls on the generated code, in a program that compiles.                *)
(***************************************************************************)
Running == pc = "expanded" /\ compiles(expanded)

\* A run builds its instances first and then makes its calls on them; eq, cmp,
\* hash and contains borrow their operands and change no instance, so a run
\* ends with one of them
Built == Running /\ last.op \in {"none", "new"}

\* Point::new(argvals) from site: the struct and `new` are both pub
CallNew(k, argvals, site) ==
    /\ Built
    /\ IF has_impl(expanded, "new")
       THEN /\ Len(argvals) = Len(impl_of(expanded, "new").params)
            /\ inst' = [inst EXCEPT ![k] =
                          [set |-> TRUE, val |-> new(expanded, argvals),
                           supplied |-> argvals, site |-> site,
                           written |-> FALSE]]
            /\ last' = [NoCall EXCEPT !.op = "new", !.i = k, !.site = site,
                                      !.ok = TRUE, !.args = argvals]
       ELSE /\ Len(argvals) = Len(expanded.struct_fields)
            /\ inst' = inst
            /\ last' = [NoCall EXCEPT !.op = "new", !.i = k, !.site = site,
                                      !.args = argvals,
                                      !.err = "no function named new"]
    /\ UNCHANGED <<args, input, options, expanded, pc>>

\* inst[k].field from site
ReadField(k, f, site) ==
    /\ Running
    /\ inst[k].set
    /\ f \in 1..Len(expanded.struct_fields)
    /\ LET okv == visible(expanded.struct_fields[f].vis, site) IN
       last' = [NoCall EXCEPT !.op = "read", !.i = k, !.f = f, !.site = site,
                              !.ok = okv,
                              !.v = IF okv THEN inst[k].val[f] ELSE 0,
                              !.err = IF okv THEN "" ELSE "field is private"]
    /\ UNCHANGED <<args, input, options, expanded, inst, pc>>

\* inst[k].field = v from site
WriteField(k, f, v, site) ==
    /\ Running
    /\ inst[k].set
    /\ f \in 1..Len(expanded.struct_fields)
    /\ LET okv == visible(expanded.struct_fields[f].vis, site) IN
       /\ inst' = IF okv
                  THEN [inst EXCEPT ![k].val[f] = v, ![k].written = TRUE]
                  ELSE inst
       /\ last' = [NoCall EXCEPT !.op = "write", !.i = k, !.f = f, !.v = v,
                                 !.site = site, !.ok = okv,
                                 !.err = IF okv THEN "" ELSE "field is private"]
    /\ UNCHANGED <<args, input, options, expanded, pc>>

\* inst[i] == inst[j]
CallEq(i, j) ==
    /\ Built
    /\ has_impl(expanded, "PartialEq")
    /\ inst[i].set /\ inst[j].set
    /\ LET r == eq(expanded, inst[i].val, inst[j].val) IN
       last' = [NoCall EXCEPT !.op = "eq", !.i = i, !.j = j, !.ok = r.ok,
                              !.b = r.b]
    /\ UNCHANGED <<args, input, options, expanded, inst, pc>>

\* inst[i].cmp(&inst[j])
CallCmp(i, j) ==
    /\ Built
    /\ has_impl(expanded, "Ord")
    /\ inst[i].set /\ inst[j].set
    /\ last' = [NoCall EXCEPT !.op = "cmp", !.i = i, !.j = j, !.ok = TRUE,
                              !.ord = cmp(expanded, inst[i].val, inst[j].val)]
    /\ UNCHANGED <<args, input, options, expanded, inst, pc>>

\* inst[i].hash(&mut hasher); hasher.finish()
CallHash(i) ==
    /\ Built
    /\ has_impl(expanded, "Hash")
    /\ inst[i].set
    /\ last' = [NoCall EXCEPT !.op = "hash", !.i = i, !.ok = TRUE,
                              !.h = hash(expanded, inst[i].val)]
    /\ UNCHANGED <<args, input, options, expanded, inst, pc>>

\* set.insert(inst[i]); set.contains(&inst[j])
CallContains(i, j) ==
    /\ Built
    /\ has_impl(expanded, "Hash") /\ has_impl(expanded, "Eq")
    /\ inst[i].set /\ inst[j].set
    /\ last' = [NoCall EXCEPT !.op = "contains", !.i = i, !.j = j, !.ok = TRUE,
                              !.b = set_contains(expanded, inst[i].val, inst[j].val)]
    /\ UNCHANGED <<args, input, options, expanded, inst, pc>>

(***************************************************************************)
(* Specifications.                                                         *)
(***************************************************************************)
\* option parsing, over every option list up to MaxArgs entries
InitParse ==
    \E as \in SeqsUpTo(MetaEntries, MaxArgs) :
        InitWith(as, DeriveInput("Point", "struct_named", <<>>, <<>>),
                 default_options)
NextParse == ParseOptions
SpecParse == InitParse /\ [][NextParse]_vars

\* the whole macro, over every shape and annotation list
InitMacro ==
    \E as \in MacroArgs, in \in ShapedInputs : InitWith(as, in, default_options)
NextMacro == Expand
SpecMacro == InitMacro /\ [][NextMacro]_vars

\* synthesis, over every configuration
InitSynth ==
    \E o \in DataclassOptions,
       in \in NamedInputs \cup {DeriveInput("Point", k, <<>>, <<>>) : k \in Kinds} :
        InitWith(<<>>, in, o)
NextSynth == Synthesize
SpecSynth == InitSynth /\ [][NextSynth]_vars

\* programs that build instances and compare, order and hash them
InitRun == \E as \in RunArgs, in \in NamedInputs : InitWith(as, in, default_options)
NextRun ==
    \/ Expand
    \/ \E k \in Slots, av \in SeqsUpTo(Values, 2) : CallNew(k, av, "same_crate")
    \/ \E i \in Slots, j \in Slots : CallEq(i, j)
    \/ \E i \in Slots, j \in Slots : CallCmp(i, j)
    \/ \E i \in Slots : CallHash(i)
    \/ \E i \in Slots, j \in Slots : CallContains(i, j)
SpecRun == InitRun /\ [][NextRun]_vars

\* programs that build an instance and touch its fields from either side of
\* the crate boundary
InitVis == \E as \in VisArgs, in \in NamedInputs : InitWith(as, in, default_options)
NextVis ==
    \/ Expand
    \/ \E av \in SeqsUpTo(Values, 2), site \in Sites : CallNew(1, av, site)
    \/ \E f \in 1..2, site \in Sites : ReadField(1, f, site)
    \/ \E f \in 1..2, v \in Values, site \in Sites : WriteField(1, f, v, site)
SpecVis == InitVis /\ [][NextVis]_vars

Spec == SpecRun

(***************************************************************************)
(* Option parsing (SpecParse).                                             *)
(***************************************************************************)
\* the entries of an option list that name option n
Naming(as, n) ==
    {k \in 1..Len(as) : as[k].kind = "NameValue" /\ as[k].path = <<n>>}
Greatest(S) == CHOOSE k \in S : \A m \in S : m <= k

\* C1: for every accepted option list, each of the ten flags has the value of
\* the last entry naming it, or its documented default if no entry names it
C1_LastEntryWins ==
    pc = "parsed" =>
        \A n \in OptionNames :
            options.flags[n] =
                IF Naming(args, n) = {}
                THEN n \in {"init", "repr", "eq", "match_args"}
                ELSE args[Greatest(Naming(args, n))].value.b

\* C1 witness: an accepted list naming order twice, the later value kept
C1_Witness ==
    /\ pc = "parsed"
    /\ args = <<Opt("order", FALSE), Opt("order", TRUE)>>
    /\ options.flags["order"]

WellFormed(meta) ==
    /\ meta.kind = "NameValue"
    /\ Len(meta.path) = 1
    /\ meta.value.expr = "Lit" /\ meta.value.lit = "Bool"
    /\ meta.path[1] \in OptionNames

\* C7: an option list is accepted only if every entry is `name = value` with a
\* bare identifier among the ten names and a literal boolean; an entry whose
\* left side is no bare identifier or whose value is no literal boolean makes
\* parsing fail; no entry is silently ignored
C7_NoEntryIgnored ==
    /\ pc = "parsed" => \A k \in 1..Len(args) : WellFormed(args[k])
    /\ (pc # "start" /\ \E k \in 1..Len(args) : ~WellFormed(args[k]))
           => options.panicked

(***************************************************************************)
(* Shapes and annotations (SpecMacro).                                     *)
(***************************************************************************)
ShapeErrors == {"Dataclass only works with named fields",
                "Dataclass only works with structs"}

\* nothing of a type definition came back
NoDefinition(def) ==
    /\ def.panicked
    /\ def.ident = "" /\ def.attrs = <<>>
    /\ def.struct_fields = <<>> /\ def.implementations = <<>>

\* C8 as stated: a type that is no struct with named fields fails with the
\* unsupported-shape error for every option list
C8_ShapeErrorForEveryOptionList ==
    (pc # "start" /\ input.kind # "struct_named") =>
        NoDefinition(expanded) /\ expanded.msg \in ShapeErrors

\* C8 as amended: such a type fails for every option list and nothing of a
\* definition is returned; the error is the unsupported-shape error when the
\* option list is accepted and the option parser's error otherwise; a
\* definition is returned only when option parsing and field extraction succeed
C8_ShapeErrorAfterOptions ==
    pc # "start" =>
        /\ input.kind # "struct_named" =>
              /\ NoDefinition(expanded)
              /\ ~options.panicked => expanded.msg \in ShapeErrors
              /\ options.panicked =>
                    expanded.msg = options.msg /\ expanded.cited = options.ident
        /\ ~expanded.panicked =>
              ~options.panicked /\ input.kind = "struct_named"
        /\ expanded.panicked => NoDefinition(expanded)

\* C8 witness: an enum under an accepted option list, refused for its shape
C8_Witness ==
    /\ pc = "failed"
    /\ input.kind = "enum"
    /\ args = <<Opt("frozen", TRUE)>>
    /\ expanded.msg = "Dataclass only works with structs"

\* the serialization library's annotations: #[serde(..)], a derive of its
\* Serialize and Deserialize, or the feature-gated derive the macro appends
IsSerializationMarker(attr) ==
    \/ attr.path = "serde"
    \/ attr = derive_serialize_attr
    \/ attr = serde_derive_attr

\* C10: with a serialization marker among the type's annotations the passed-on
\* annotation list is the input list; without one it is the input list followed
\* by exactly one feature-gated derivation marker; name and fields are kept
C10_MarkerAppendedIffAbsent ==
    pc = "expanded" =>
        LET out == Tail(expanded.attrs)
            present == \E k \in 1..Len(input.attrs) :
                           IsSerializationMarker(input.attrs[k])
        IN /\ present => out = input.attrs
           /\ ~present => out = Append(input.attrs, serde_derive_attr)
           /\ expanded.ident = input.ident
           /\ Len(expanded.struct_fields) = Len(input.fields)
           /\ \A k \in 1..Len(input.fields) :
                 /\ expanded.struct_fields[k].ident = input.fields[k].ident
                 /\ expanded.struct_fields[k].ty = input.fields[k].ty

(***************************************************************************)
(* Synthesis over the configurations (SpecSynth).                          *)
(***************************************************************************)
Capabilities(def) ==
    (IF \E k \in 1..Len(def.attrs) : def.attrs[k] = derive_clone_attr
     THEN {"clone"} ELSE {})
    \cup (IF has_impl(def, "new") THEN {"constructor"} ELSE {})
    \cup (IF has_impl(def, "Debug") THEN {"representation"} ELSE {})
    \cup (IF has_impl(def, "PartialEq") /\ has_impl(def, "Eq")
          THEN {"equality"} ELSE {})
    \cup (IF has_impl(def, "PartialOrd") /\ has_impl(def, "Ord")
          THEN {"ordering"} ELSE {})
    \cup (IF has_impl(def, "Hash") THEN {"hash"} ELSE {})

Enabled(o) ==
    {"clone"}
    \cup (IF o["init"] THEN {"constructor"} ELSE {})
    \cup (IF o["repr"] THEN {"representation"} ELSE {})
    \cup (IF o["eq"] THEN {"equality"} ELSE {})
    \cup (IF o["order"] THEN {"ordering"} ELSE {})
    \cup (IF o["unsafe_hash"] THEN {"hash"} ELSE {})

Inert == {"kw_only", "slots", "weakref_slot", "match_args"}

\* C9: the capabilities of the emitted definition are clone plus one per
\* enabled flag among init, repr, eq, order, unsafe_hash, each fragment emitted
\* at most once; configurations that differ only in kw_only, slots,
\* weakref_slot or match_args give the same output for the same type
C9_CapabilitiesFollowFlags ==
    pc = "expanded" =>
        /\ Capabilities(expanded) = Enabled(options.flags)
        /\ \A t \in {"new", "Debug", "PartialEq", "Eq", "PartialOrd", "Ord", "Hash"} :
              Cardinality({k \in 1..Len(expanded.implementations) :
                              expanded.implementations[k].trait = t}) <= 1
        /\ has_impl(expanded, "PartialEq") <=> has_impl(expanded, "Eq")
        /\ has_impl(expanded, "PartialOrd") <=> has_impl(expanded, "Ord")
        /\ \A o \in DataclassOptions :
              (\A n \in OptionNames \ Inert : o[n] = options.flags[n])
                  => implement_dataclass(input, o) = expanded

\* C9 witness: no constructor, an ordering, and the four inert flags set
C9_Witness ==
    /\ pc = "expanded"
    /\ Len(input.fields) = 2
    /\ \A n \in Inert : options.flags[n]
    /\ ~options.flags["init"] /\ options.flags["order"]
    /\ Capabilities(expanded) = {"clone", "representation", "equality", "ordering"}

(***************************************************************************)
(* The generated operations (SpecRun).                                     *)
(***************************************************************************)
\* every instance of a type with these fields
Instances(fields) == [1..Len(fields) -> Values]

SetSlots == {k \in Slots : inst[k].set}

\* C2: with init enabled, `new` takes one parameter per field, in declaration
\* order, and the instance it returns holds at each field the argument given
\* at that field's position
C2_ConstructorKeepsPositions ==
    (pc = "expanded" /\ options.flags["init"]) =>
        /\ has_impl(expanded, "new")
        /\ impl_of(expanded, "new").params = input.fields
        /\ (last.op = "new") =>
              /\ last.ok
              /\ Len(last.args) = Len(input.fields)
              /\ Len(inst[last.i].val) = Len(input.fields)
              /\ \A k \in 1..Len(input.fields) :
                    /\ expanded.struct_fields[k].ident = input.fields[k].ident
                    /\ inst[last.i].val[k] = last.args[k]

\* C2 witness: new(0, 1) has returned the instance with x = 0 and y = 1
C2_Witness ==
    /\ pc = "expanded" /\ options.flags["init"]
    /\ last.op = "new" /\ last.args = <<0, 1>>
    /\ inst[last.i].val = <<0, 1>>

\* C3: with eq enabled, for every field list, the list of no fields included,
\* the generated equality is a function to bool that is true exactly when
\* every pair of same-named fields is equal
C3_EqIffEveryFieldEqual ==
    (pc = "expanded" /\ options.flags["eq"]) =>
        \A a \in Instances(input.fields), b \in Instances(input.fields) :
            LET r == eq(expanded, a, b) IN
            /\ r.ok
            /\ r.b <=> \A k \in 1..Len(input.fields) : a[k] = b[k]

\* the first position at which two instances differ
Differing(a, b) == {k \in 1..Len(a) : a[k] # b[k]}
Least(S) == CHOOSE k \in S : \A m \in S : k <= m

\* C4: with order enabled, the comparison of two instances is that of the first
\* field, in declaration order, whose values differ, whatever the later fields
\* hold, and Equal exactly when no field differs; over the instances built it
\* is a total order, and instances equal under eq compare Equal
C4_LexicographicOrder ==
    (pc = "expanded" /\ last.op = "cmp") =>
        LET a == inst[last.i].val
            b == inst[last.j].val
            c(i, j) == cmp(expanded, inst[i].val, inst[j].val)
        IN /\ options.flags["order"]
           /\ last.ord = IF Differing(a, b) = {} THEN "Equal"
                         ELSE i32_cmp(a[Least(Differing(a, b))],
                                      b[Least(Differing(a, b))])
           /\ \A i \in SetSlots, j \in SetSlots :
                 /\ c(i, j) = "Less" <=> c(j, i) = "Greater"
                 /\ c(i, j) = "Equal" <=> inst[i].val = inst[j].val
                 /\ eq(expanded, inst[i].val, inst[j].val).b => c(i, j) = "Equal"
           /\ \A i \in SetSlots, j \in SetSlots, k \in SetSlots :
                 /\ (c(i, j) = "Less" /\ c(j, k) = "Less") => c(i, k) = "Less"
                 /\ (c(i, j) = "Equal" /\ c(j, k) = "Equal") => c(i, k) = "Equal"

\* C4 witness: (0, 1) compared with (1, 0) is Less: the first field decides
\* against the second
C4_Witness ==
    /\ pc = "expanded" /\ last.op = "cmp"
    /\ inst[last.i].val = <<0, 1>> /\ inst[last.j].val = <<1, 0>>
    /\ last.ord = "Less"

\* C5: with unsafe_hash and eq enabled, an instance feeds every field, in
\* declaration order, to the hasher; instances the generated equality reports
\* equal have equal hashes, and an instance equal to the member of a hash set
\* is found in it
C5_EqualInstancesHashEqual ==
    (pc = "expanded" /\ options.flags["eq"] /\ options.flags["unsafe_hash"]) =>
        /\ last.op = "hash" =>
              /\ last.h = inst[last.i].val
              /\ \A j \in SetSlots :
                    eq(expanded, inst[last.i].val, inst[j].val).b
                        => hash(expanded, inst[j].val) = last.h
        /\ last.op = "contains" =>
              (eq(expanded, inst[last.j].val, inst[last.i].val).b => last.b)

\* C5 witness: a second instance (1, 0) is found in the set holding the first
C5_Witness ==
    /\ pc = "expanded" /\ options.flags["eq"] /\ options.flags["unsafe_hash"]
    /\ last.op = "contains" /\ last.i # last.j /\ last.b
    /\ inst[last.i].val = <<1, 0>> /\ inst[last.j].val = <<1, 0>>

(***************************************************************************)
(* Field visibility (SpecVis).                                             *)
(***************************************************************************)
\* C6 as stated: under frozen every field is pub(crate) and construction from
\* outside stays possible through the generated constructor; otherwise every
\* field is pub
C6_FrozenKeepsConstructor ==
    pc = "expanded" =>
        /\ options.flags["frozen"] =>
              /\ \A k \in 1..Len(expanded.struct_fields) :
                    expanded.struct_fields[k].vis = "pub(crate)"
              /\ has_impl(expanded, "new")
              /\ last.op = "new" => last.ok
        /\ ~options.flags["frozen"] =>
              \A k \in 1..Len(expanded.struct_fields) :
                  expanded.struct_fields[k].vis = "pub"

\* C6 as amended: under frozen every field is pub(crate), so no other crate
\* reads or assigns it, and when init is enabled too the generated constructor
\* builds the instance from either side and its fields read, within the crate,
\* as the values supplied; without frozen every field is pub
C6_FrozenVisibility ==
    pc = "expanded" =>
        /\ options.flags["frozen"] =>
              /\ \A k \in 1..Len(expanded.struct_fields) :
                    expanded.struct_fields[k].vis = "pub(crate)"
              /\ options.flags["init"] => has_impl(expanded, "new")
              /\ (last.op \in {"read", "write"} /\ last.site = "other_crate")
                    => ~last.ok
        /\ ~options.flags["frozen"] =>
              /\ \A k \in 1..Len(expanded.struct_fields) :
                    expanded.struct_fields[k].vis = "pub"
              /\ last.op \in {"read", "write"} => last.ok
        /\ (last.op = "new" /\ options.flags["init"]) =>
              last.ok /\ inst[last.i].val = last.args
        /\ (last.op = "read" /\ last.site = "same_crate") =>
              /\ last.ok
              /\ ~inst[last.i].written => last.v = inst[last.i].supplied[last.f]

\* C6 witness: a frozen instance built by another crate with (1, 0), its first
\* field read within the crate as 1
C6_Witness ==
    /\ pc = "expanded" /\ options.flags["frozen"]
    /\ inst[1].set /\ inst[1].site = "other_crate" /\ ~inst[1].written
    /\ inst[1].supplied = <<1, 0>>
    /\ last.op = "read" /\ last.site = "same_crate" /\ last.f = 1
    /\ last.ok /\ last.v = 1

====
